---- MODULE Spec2Model ----
(***************************************************************************)
(* The indentation checker of solhint (lib/rules/align/indent.js): the     *)
(* IndentChecker listener, its three validators (BlockValidator,           *)
(* NestedSingleLineValidator, BaseIndentMultiplicityValidator), the Block  *)
(* view and the helpers correctIndentOf / firstNodeOfLine, driven by a     *)
(* depth-first walk over the parse tree of one source unit.                *)
(*                                                                         *)
(* A parse tree is a table of nodes numbered in document order (pre-order),*)
(* node 1 being the source unit.  A JavaScript exception thrown by a       *)
(* handler is the outcome "thrown" of that handler; it ends the walk.      *)
(* JavaScript child indexes count from 0, sequences here from 1: Child     *)
(* does the shift.                                                         *)
(***************************************************************************)
EXTENDS Integers, Sequences, FiniteSets, TLC

VARIABLES
    pc,          \* "new" | "failed" | "ready" | "walk" | "done" | "aborted"
    config,      \* the configuration object handed to the constructor
    indent,      \* KnowLineValidator.indent / BaseIndentMultiplicityValidator.indent
    indentUnit,  \* KnowLineValidator.indentUnit
    tree,        \* the parse tree of the source unit being checked
    tokens,      \* ctx.parser._input.tokens of that source unit
    pos,         \* the node whose enter handler the walker calls next
    indentError, \* node -> the indentError annotation attached to it
    blockLines,  \* blockValidator.linesWithError
    nestedLines, \* nestedSingleLineValidator.linesWithError
    firstIndent, \* baseIndentMultiplicityValidator.firstIndent (line -> column)
    reporter,    \* the calls made to reporter.errorAt, in order
    mark,        \* number of reporter calls made before the current pass began
    units,       \* number of source units this checker instance has entered
    writes,      \* node -> number of assignments made to its indentError
    checks       \* node -> number of times a validator compared its column

vars == << pc, config, indent, indentUnit, tree, tokens, pos, indentError,
           blockLines, nestedLines, firstIndent, reporter, mark, units,
           writes, checks >>

----------------------------------------------------------------------------
(* Bounds of the model. *)

\* at most this many lines of a source unit are shifted away from their level
MaxFaults == 2

\* a shifted line is moved by at most this many columns, to either side
MaxDelta == 1

\* a checker instance is handed at most this many source units in a row
MaxUnits == 2

\* numeric indent options of a configuration range over -MaxOption..MaxOption
MaxOption == 2

(* Program constants. *)

\* `|| 4` in the constructor
DefaultIndent == 4

\* the token type a token must not be below to be counted (`i.type >= 0`)
MinTokenType == 0

\* the channel of the tokens that are counted (`i.channel === 0`)
CodeChannel == 0

THEN_STATEMENT_POSITION == 4

ELSE_STATEMENT_POSITION == 6

STATEMENT_POSITION == 4

DO_STATEMENT_POSITION == 1

\* the type the lexer gives its end-of-input token
EOF == -1

----------------------------------------------------------------------------
(* Nodes and tokens as the parser hands them over. *)

\* a rule context: children in order, start token position, line of the stop token
Rule(kind, parent, children, line, column, stop) ==
    [kind |-> kind, text |-> "", parent |-> parent, children |-> children,
     line |-> line, column |-> column, stopLine |-> stop]

\* a terminal node: it has a symbol (its token) and no children
Term(text, parent, line, column) ==
    [kind |-> "TerminalNodeImpl", text |-> text, parent |-> parent,
     children |-> << >>, line |-> line, column |-> column, stopLine |-> line]

Token(line, column, channel, type) ==
    [line |-> line, column |-> column, channel |-> channel, type |-> type]

----------------------------------------------------------------------------
(* The source units the checker is run on: the parse trees and token       *)
(* streams of small Solidity sources.  ind[l] is the column of the first   *)
(* token of line l; the other tokens of the line keep their distance to it.*)

(* Braces:
      1  contract A {
      2      function f() {
      3          if (a) {
      4              b;
      5          } else {
      6              c;
      7          }
      8      }
      9  }
*)
BracesLevels == << 0, 1, 2, 3, 2, 3, 2, 1, 0 >>

BracesTree(ind) ==
    << Rule("SourceUnitContext", 0, << 2, 43 >>, 1, ind[1], 9),
       Rule("ContractDefinitionContext", 1, << 3, 4, 5, 6, 42 >>, 1, ind[1], 9),
       Term("contract", 2, 1, ind[1]),
       Term("A", 2, 1, ind[1] + 9),
       Term("{", 2, 1, ind[1] + 11),
       Rule("ContractPartContext", 2, << 7 >>, 2, ind[2], 8),
       Rule("FunctionDefinitionContext", 6, << 8, 9, 10, 13 >>, 2, ind[2], 8),
       Term("function", 7, 2, ind[2]),
       Term("f", 7, 2, ind[2] + 9),
       Rule("ParameterListContext", 7, << 11, 12 >>, 2, ind[2] + 10, 2),
       Term("(", 10, 2, ind[2] + 10),
       Term(")", 10, 2, ind[2] + 11),
       Rule("BlockContext", 7, << 14, 15, 41 >>, 2, ind[2] + 13, 8),
       Term("{", 13, 2, ind[2] + 13),
       Rule("StatementContext", 13, << 16 >>, 3, ind[3], 7),
       Rule("IfStatementContext", 15, << 17, 18, 19, 21, 22, 31, 32 >>, 3, ind[3], 7),
       Term("if", 16, 3, ind[3]),
       Term("(", 16, 3, ind[3] + 3),
       Rule("ExpressionContext", 16, << 20 >>, 3, ind[3] + 4, 3),
       Term("a", 19, 3, ind[3] + 4),
       Term(")", 16, 3, ind[3] + 5),
       Rule("StatementContext", 16, << 23 >>, 3, ind[3] + 7, 5),
       Rule("BlockContext", 22, << 24, 25, 30 >>, 3, ind[3] + 7, 5),
       Term("{", 23, 3, ind[3] + 7),
       Rule("StatementContext", 23, << 26 >>, 4, ind[4], 4),
       Rule("ExpressionStatementContext", 25, << 27, 29 >>, 4, ind[4], 4),
       Rule("ExpressionContext", 26, << 28 >>, 4, ind[4], 4),
       Term("b", 27, 4, ind[4]),
       Term(";", 26, 4, ind[4] + 1),
       Term("}", 23, 5, ind[5]),
       Term("else", 16, 5, ind[5] + 2),
       Rule("StatementContext", 16, << 33 >>, 5, ind[5] + 7, 7),
       Rule("BlockContext", 32, << 34, 35, 40 >>, 5, ind[5] + 7, 7),
       Term("{", 33, 5, ind[5] + 7),
       Rule("StatementContext", 33, << 36 >>, 6, ind[6], 6),
       Rule("ExpressionStatementContext", 35, << 37, 39 >>, 6, ind[6], 6),
       Rule("ExpressionContext", 36, << 38 >>, 6, ind[6], 6),
       Term("c", 37, 6, ind[6]),
       Term(";", 36, 6, ind[6] + 1),
       Term("}", 33, 7, ind[7]),
       Term("}", 13, 8, ind[8]),
       Term("}", 2, 9, ind[9]),
       Term("<EOF>", 1, 9, ind[9] + 1) >>

BracesTokens(ind) ==
    << Token(1, ind[1], 0, 1),
       Token(1, ind[1] + 9, 0, 1),
       Token(1, ind[1] + 11, 0, 1),
       Token(2, ind[2], 0, 1),
       Token(2, ind[2] + 9, 0, 1),
       Token(2, ind[2] + 10, 0, 1),
       Token(2, ind[2] + 11, 0, 1),
       Token(2, ind[2] + 13, 0, 1),
       Token(3, ind[3], 0, 1),
       Token(3, ind[3] + 3, 0, 1),
       Token(3, ind[3] + 4, 0, 1),
       Token(3, ind[3] + 5, 0, 1),
       Token(3, ind[3] + 7, 0, 1),
       Token(4, ind[4], 0, 1),
       Token(4, ind[4] + 1, 0, 1),
       Token(5, ind[5], 0, 1),
       Token(5, ind[5] + 2, 0, 1),
       Token(5, ind[5] + 7, 0, 1),
       Token(6, ind[6], 0, 1),
       Token(6, ind[6] + 1, 0, 1),
       Token(7, ind[7], 0, 1),
       Token(8, ind[8], 0, 1),
       Token(9, ind[9], 0, 1),
       Token(9, ind[9] + 1, 0, EOF) >>

(* IfElse:
      1  contract A {
      2      function f() {
      3          if (a)
      4              b;
      5          else
      6              c;
      7      }
      8  }
*)
IfElseLevels == << 0, 1, 2, 3, 2, 3, 1, 0 >>

IfElseTree(ind) ==
    << Rule("SourceUnitContext", 0, << 2, 35 >>, 1, ind[1], 8),
       Rule("ContractDefinitionContext", 1, << 3, 4, 5, 6, 34 >>, 1, ind[1], 8),
       Term("contract", 2, 1, ind[1]),
       Term("A", 2, 1, ind[1] + 9),
       Term("{", 2, 1, ind[1] + 11),
       Rule("ContractPartContext", 2, << 7 >>, 2, ind[2], 7),
       Rule("FunctionDefinitionContext", 6, << 8, 9, 10, 13 >>, 2, ind[2], 7),
       Term("function", 7, 2, ind[2]),
       Term("f", 7, 2, ind[2] + 9),
       Rule("ParameterListContext", 7, << 11, 12 >>, 2, ind[2] + 10, 2),
       Term("(", 10, 2, ind[2] + 10),
       Term(")", 10, 2, ind[2] + 11),
       Rule("BlockContext", 7, << 14, 15, 33 >>, 2, ind[2] + 13, 7),
       Term("{", 13, 2, ind[2] + 13),
       Rule("StatementContext", 13, << 16 >>, 3, ind[3], 6),
       Rule("IfStatementContext", 15, << 17, 18, 19, 21, 22, 27, 28 >>, 3, ind[3], 6),
       Term("if", 16, 3, ind[3]),
       Term("(", 16, 3, ind[3] + 3),
       Rule("ExpressionContext", 16, << 20 >>, 3, ind[3] + 4, 3),
       Term("a", 19, 3, ind[3] + 4),
       Term(")", 16, 3, ind[3] + 5),
       Rule("StatementContext", 16, << 23 >>, 4, ind[4], 4),
       Rule("ExpressionStatementContext", 22, << 24, 26 >>, 4, ind[4], 4),
       Rule("ExpressionContext", 23, << 25 >>, 4, ind[4], 4),
       Term("b", 24, 4, ind[4]),
       Term(";", 23, 4, ind[4] + 1),
       Term("else", 16, 5, ind[5]),
       Rule("StatementContext", 16, << 29 >>, 6, ind[6], 6),
       Rule("ExpressionStatementContext", 28, << 30, 32 >>, 6, ind[6], 6),
       Rule("ExpressionContext", 29, << 31 >>, 6, ind[6], 6),
       Term("c", 30, 6, ind[6]),
       Term(";", 29, 6, ind[6] + 1),
       Term("}", 13, 7, ind[7]),
       Term("}", 2, 8, ind[8]),
       Term("<EOF>", 1, 8, ind[8] + 1) >>

IfElseTokens(ind) ==
    << Token(1, ind[1], 0, 1),
       Token(1, ind[1] + 9, 0, 1),
       Token(1, ind[1] + 11, 0, 1),
       Token(2, ind[2], 0, 1),
       Token(2, ind[2] + 9, 0, 1),
       Token(2, ind[2] + 10, 0, 1),
       Token(2, ind[2] + 11, 0, 1),
       Token(2, ind[2] + 13, 0, 1),
       Token(3, ind[3], 0, 1),
       Token(3, ind[3] + 3, 0, 1),
       Token(3, ind[3] + 4, 0, 1),
       Token(3, ind[3] + 5, 0, 1),
       Token(4, ind[4], 0, 1),
       Token(4, ind[4] + 1, 0, 1),
       Token(5, ind[5], 0, 1),
       Token(6, ind[6], 0, 1),
       Token(6, ind[6] + 1, 0, 1),
       Token(7, ind[7], 0, 1),
       Token(8, ind[8], 0, 1),
       Token(8, ind[8] + 1, 0, EOF) >>

(* Loops:
      1  contract A {
      2      function f() {
      3          while (a)
      4              b;
      5          do
      6              c;
      7          while (a);
      8      }
      9  }
*)
LoopsLevels == << 0, 1, 2, 3, 2, 3, 2, 1, 0 >>

LoopsTree(ind) ==
    << Rule("SourceUnitContext", 0, << 2, 43 >>, 1, ind[1], 9),
       Rule("ContractDefinitionContext", 1, << 3, 4, 5, 6, 42 >>, 1, ind[1], 9),
       Term("contract", 2, 1, ind[1]),
       Term("A", 2, 1, ind[1] + 9),
       Term("{", 2, 1, ind[1] + 11),
       Rule("ContractPartContext", 2, << 7 >>, 2, ind[2], 8),
       Rule("FunctionDefinitionContext", 6, << 8, 9, 10, 13 >>, 2, ind[2], 8),
       Term("function", 7, 2, ind[2]),
       Term("f", 7, 2, ind[2] + 9),
       Rule("ParameterListContext", 7, << 11, 12 >>, 2, ind[2] + 10, 2),
       Term("(", 10, 2, ind[2] + 10),
       Term(")", 10, 2, ind[2] + 11),
       Rule("BlockContext", 7, << 14, 15, 27, 41 >>, 2, ind[2] + 13, 8),
       Term("{", 13, 2, ind[2] + 13),
       Rule("StatementContext", 13, << 16 >>, 3, ind[3], 4),
       Rule("WhileStatementContext", 15, << 17, 18, 19, 21, 22 >>, 3, ind[3], 4),
       Term("while", 16, 3, ind[3]),
       Term("(", 16, 3, ind[3] + 6),
       Rule("ExpressionContext", 16, << 20 >>, 3, ind[3] + 7, 3),
       Term("a", 19, 3, ind[3] + 7),
       Term(")", 16, 3, ind[3] + 8),
       Rule("StatementContext", 16, << 23 >>, 4, ind[4], 4),
       Rule("ExpressionStatementContext", 22, << 24, 26 >>, 4, ind[4], 4),
       Rule("ExpressionContext", 23, << 25 >>, 4, ind[4], 4),
       Term("b", 24, 4, ind[4]),
       Term(";", 23, 4, ind[4] + 1),
       Rule("StatementContext", 13, << 28 >>, 5, ind[5], 7),
       Rule("DoWhileStatementContext", 27, << 29, 30, 35, 36, 37, 39, 40 >>, 5, ind[5], 7),
       Term("do", 28, 5, ind[5]),
       Rule("StatementContext", 28, << 31 >>, 6, ind[6], 6),
       Rule("ExpressionStatementContext", 30, << 32, 34 >>, 6, ind[6], 6),
       Rule("ExpressionContext", 31, << 33 >>, 6, ind[6], 6),
       Term("c", 32, 6, ind[6]),
       Term(";", 31, 6, ind[6] + 1),
       Term("while", 28, 7, ind[7]),
       Term("(", 28, 7, ind[7] + 6),
       Rule("ExpressionContext", 28, << 38 >>, 7, ind[7] + 7, 7),
       Term("a", 37, 7, ind[7] + 7),
       Term(")", 28, 7, ind[7] + 8),
       Term(";", 28, 7, ind[7] + 9),
       Term("}", 13, 8, ind[8]),
       Term("}", 2, 9, ind[9]),
       Term("<EOF>", 1, 9, ind[9] + 1) >>

LoopsTokens(ind) ==
    << Token(1, ind[1], 0, 1),
       Token(1, ind[1] + 9, 0, 1),
       Token(1, ind[1] + 11, 0, 1),
       Token(2, ind[2], 0, 1),
       Token(2, ind[2] + 9, 0, 1),
       Token(2, ind[2] + 10, 0, 1),
       Token(2, ind[2] + 11, 0, 1),
       Token(2, ind[2] + 13, 0, 1),
       Token(3, ind[3], 0, 1),
       Token(3, ind[3] + 6, 0, 1),
       Token(3, ind[3] + 7, 0, 1),
       Token(3, ind[3] + 8, 0, 1),
       Token(4, ind[4], 0, 1),
       Token(4, ind[4] + 1, 0, 1),
       Token(5, ind[5], 0, 1),
       Token(6, ind[6], 0, 1),
       Token(6, ind[6] + 1, 0, 1),
       Token(7, ind[7], 0, 1),
       Token(7, ind[7] + 6, 0, 1),
       Token(7, ind[7] + 7, 0, 1),
       Token(7, ind[7] + 8, 0, 1),
       Token(7, ind[7] + 9, 0, 1),
       Token(8, ind[8], 0, 1),
       Token(9, ind[9], 0, 1),
       Token(9, ind[9] + 1, 0, EOF) >>

(* ForOneLine:
      1  contract A {
      2      function f() {
      3          for (;;)
      4              b;
      5          if (a) c;
      6      }
      7  }
*)
ForOneLineLevels == << 0, 1, 2, 3, 2, 1, 0 >>

ForOneLineTree(ind) ==
    << Rule("SourceUnitContext", 0, << 2, 41 >>, 1, ind[1], 7),
       Rule("ContractDefinitionContext", 1, << 3, 4, 5, 6, 40 >>, 1, ind[1], 7),
       Term("contract", 2, 1, ind[1]),
       Term("A", 2, 1, ind[1] + 9),
       Term("{", 2, 1, ind[1] + 11),
       Rule("ContractPartContext", 2, << 7 >>, 2, ind[2], 6),
       Rule("FunctionDefinitionContext", 6, << 8, 9, 10, 13 >>, 2, ind[2], 6),
       Term("function", 7, 2, ind[2]),
       Term("f", 7, 2, ind[2] + 9),
       Rule("ParameterListContext", 7, << 11, 12 >>, 2, ind[2] + 10, 2),
       Term("(", 10, 2, ind[2] + 10),
       Term(")", 10, 2, ind[2] + 11),
       Rule("BlockContext", 7, << 14, 15, 27, 39 >>, 2, ind[2] + 13, 6),
       Term("{", 13, 2, ind[2] + 13),
       Rule("StatementContext", 13, << 16 >>, 3, ind[3], 4),
       Rule("ForStatementContext", 15, << 17, 18, 19, 20, 21, 22 >>, 3, ind[3], 4),
       Term("for", 16, 3, ind[3]),
       Term("(", 16, 3, ind[3] + 4),
       Term(";", 16, 3, ind[3] + 5),
       Term(";", 16, 3, ind[3] + 6),
       Term(")", 16, 3, ind[3] + 7),
       Rule("StatementContext", 16, << 23 >>, 4, ind[4], 4),
       Rule("ExpressionStatementContext", 22, << 24, 26 >>, 4, ind[4], 4),
       Rule("ExpressionContext", 23, << 25 >>, 4, ind[4], 4),
       Term("b", 24, 4, ind[4]),
       Term(";", 23, 4, ind[4] + 1),
       Rule("StatementContext", 13, << 28 >>, 5, ind[5], 5),
       Rule("IfStatementContext", 27, << 29, 30, 31, 33, 34 >>, 5, ind[5], 5),
       Term("if", 28, 5, ind[5]),
       Term("(", 28, 5, ind[5] + 3),
       Rule("ExpressionContext", 28, << 32 >>, 5, ind[5] + 4, 5),
       Term("a", 31, 5, ind[5] + 4),
       Term(")", 28, 5, ind[5] + 5),
       Rule("StatementContext", 28, << 35 >>, 5, ind[5] + 7, 5),
       Rule("ExpressionStatementContext", 34, << 36, 38 >>, 5, ind[5] + 7, 5),
       Rule("ExpressionContext", 35, << 37 >>, 5, ind[5] + 7, 5),
       Term("c", 36, 5, ind[5] + 7),
       Term(";", 35, 5, ind[5] + 8),
       Term("}", 13, 6, ind[6]),
       Term("}", 2, 7, ind[7]),
       Term("<EOF>", 1, 7, ind[7] + 1) >>

ForOneLineTokens(ind) ==
    << Token(1, ind[1], 0, 1),
       Token(1, ind[1] + 9, 0, 1),
       Token(1, ind[1] + 11, 0, 1),
       Token(2, ind[2], 0, 1),
       Token(2, ind[2] + 9, 0, 1),
       Token(2, ind[2] + 10, 0, 1),
       Token(2, ind[2] + 11, 0, 1),
       Token(2, ind[2] + 13, 0, 1),
       Token(3, ind[3], 0, 1),
       Token(3, ind[3] + 4, 0, 1),
       Token(3, ind[3] + 5, 0, 1),
       Token(3, ind[3] + 6, 0, 1),
       Token(3, ind[3] + 7, 0, 1),
       Token(4, ind[4], 0, 1),
       Token(4, ind[4] + 1, 0, 1),
       Token(5, ind[5], 0, 1),
       Token(5, ind[5] + 3, 0, 1),
       Token(5, ind[5] + 4, 0, 1),
       Token(5, ind[5] + 5, 0, 1),
       Token(5, ind[5] + 7, 0, 1),
       Token(5, ind[5] + 8, 0, 1),
       Token(6, ind[6], 0, 1),
       Token(7, ind[7], 0, 1),
       Token(7, ind[7] + 1, 0, EOF) >>

(* ElseIf:
      1  contract A {
      2      function f() {
      3          if (a)
      4              b;
      5          else if (c)
      6              d;
      7      }
      8  }
*)
ElseIfLevels == << 0, 1, 2, 3, 2, 3, 1, 0 >>

ElseIfTree(ind) ==
    << Rule("SourceUnitContext", 0, << 2, 42 >>, 1, ind[1], 8),
       Rule("ContractDefinitionContext", 1, << 3, 4, 5, 6, 41 >>, 1, ind[1], 8),
       Term("contract", 2, 1, ind[1]),
       Term("A", 2, 1, ind[1] + 9),
       Term("{", 2, 1, ind[1] + 11),
       Rule("ContractPartContext", 2, << 7 >>, 2, ind[2], 7),
       Rule("FunctionDefinitionContext", 6, << 8, 9, 10, 13 >>, 2, ind[2], 7),
       Term("function", 7, 2, ind[2]),
       Term("f", 7, 2, ind[2] + 9),
       Rule("ParameterListContext", 7, << 11, 12 >>, 2, ind[2] + 10, 2),
       Term("(", 10, 2, ind[2] + 10),
       Term(")", 10, 2, ind[2] + 11),
       Rule("BlockContext", 7, << 14, 15, 40 >>, 2, ind[2] + 13, 7),
       Term("{", 13, 2, ind[2] + 13),
       Rule("StatementContext", 13, << 16 >>, 3, ind[3], 6),
       Rule("IfStatementContext", 15, << 17, 18, 19, 21, 22, 27, 28 >>, 3, ind[3], 6),
       Term("if", 16, 3, ind[3]),
       Term("(", 16, 3, ind[3] + 3),
       Rule("ExpressionContext", 16, << 20 >>, 3, ind[3] + 4, 3),
       Term("a", 19, 3, ind[3] + 4),
       Term(")", 16, 3, ind[3] + 5),
       Rule("StatementContext", 16, << 23 >>, 4, ind[4], 4),
       Rule("ExpressionStatementContext", 22, << 24, 26 >>, 4, ind[4], 4),
       Rule("ExpressionContext", 23, << 25 >>, 4, ind[4], 4),
       Term("b", 24, 4, ind[4]),
       Term(";", 23, 4, ind[4] + 1),
       Term("else", 16, 5, ind[5]),
       Rule("StatementContext", 16, << 29 >>, 5, ind[5] + 5, 6),
       Rule("IfStatementContext", 28, << 30, 31, 32, 34, 35 >>, 5, ind[5] + 5, 6),
       Term("if", 29, 5, ind[5] + 5),
       Term("(", 29, 5, ind[5] + 8),
       Rule("ExpressionContext", 29, << 33 >>, 5, ind[5] + 9, 5),
       Term("c", 32, 5, ind[5] + 9),
       Term(")", 29, 5, ind[5] + 10),
       Rule("StatementContext", 29, << 36 >>, 6, ind[6], 6),
       Rule("ExpressionStatementContext", 35, << 37, 39 >>, 6, ind[6], 6),
       Rule("ExpressionContext", 36, << 38 >>, 6, ind[6], 6),
       Term("d", 37, 6, ind[6]),
       Term(";", 36, 6, ind[6] + 1),
       Term("}", 13, 7, ind[7]),
       Term("}", 2, 8, ind[8]),
       Term("<EOF>", 1, 8, ind[8] + 1) >>

ElseIfTokens(ind) ==
    << Token(1, ind[1], 0, 1),
       Token(1, ind[1] + 9, 0, 1),
       Token(1, ind[1] + 11, 0, 1),
       Token(2, ind[2], 0, 1),
       Token(2, ind[2] + 9, 0, 1),
       Token(2, ind[2] + 10, 0, 1),
       Token(2, ind[2] + 11, 0, 1),
       Token(2, ind[2] + 13, 0, 1),
       Token(3, ind[3], 0, 1),
       Token(3, ind[3] + 3, 0, 1),
       Token(3, ind[3] + 4, 0, 1),
       Token(3, ind[3] + 5, 0, 1),
       Token(4, ind[4], 0, 1),
       Token(4, ind[4] + 1, 0, 1),
       Token(5, ind[5], 0, 1),
       Token(5, ind[5] + 5, 0, 1),
       Token(5, ind[5] + 8, 0, 1),
       Token(5, ind[5] + 9, 0, 1),
       Token(5, ind[5] + 10, 0, 1),
       Token(6, ind[6], 0, 1),
       Token(6, ind[6] + 1, 0, 1),
       Token(7, ind[7], 0, 1),
       Token(8, ind[8], 0, 1),
       Token(8, ind[8] + 1, 0, EOF) >>

(* StructEnum:
      1  contract A {
      2      struct S {
      3          uint a;
      4      }
      5      enum E {
      6          X
      7      }
      8  }
*)
StructEnumLevels == << 0, 1, 2, 1, 1, 2, 1, 0 >>

StructEnumTree(ind) ==
    << Rule("SourceUnitContext", 0, << 2, 26 >>, 1, ind[1], 8),
       Rule("ContractDefinitionContext", 1, << 3, 4, 5, 6, 17, 25 >>, 1, ind[1], 8),
       Term("contract", 2, 1, ind[1]),
       Term("A", 2, 1, ind[1] + 9),
       Term("{", 2, 1, ind[1] + 11),
       Rule("ContractPartContext", 2, << 7 >>, 2, ind[2], 4),
       Rule("StructDefinitionContext", 6, << 8, 9, 10, 11, 15, 16 >>, 2, ind[2], 4),
       Term("struct", 7, 2, ind[2]),
       Term("S", 7, 2, ind[2] + 7),
       Term("{", 7, 2, ind[2] + 9),
       Rule("VariableDeclarationContext", 7, << 12, 14 >>, 3, ind[3], 3),
       Rule("TypeNameContext", 11, << 13 >>, 3, ind[3], 3),
       Term("uint", 12, 3, ind[3]),
       Term("a", 11, 3, ind[3] + 5),
       Term(";", 7, 3, ind[3] + 6),
       Term("}", 7, 4, ind[4]),
       Rule("ContractPartContext", 2, << 18 >>, 5, ind[5], 7),
       Rule("EnumDefinitionContext", 17, << 19, 20, 21, 22, 24 >>, 5, ind[5], 7),
       Term("enum", 18, 5, ind[5]),
       Term("E", 18, 5, ind[5] + 5),
       Term("{", 18, 5, ind[5] + 7),
       Rule("EnumValueContext", 18, << 23 >>, 6, ind[6], 6),
       Term("X", 22, 6, ind[6]),
       Term("}", 18, 7, ind[7]),
       Term("}", 2, 8, ind[8]),
       Term("<EOF>", 1, 8, ind[8] + 1) >>

StructEnumTokens(ind) ==
    << Token(1, ind[1], 0, 1),
       Token(1, ind[1] + 9, 0, 1),
       Token(1, ind[1] + 11, 0, 1),
       Token(2, ind[2], 0, 1),
       Token(2, ind[2] + 7, 0, 1),
       Token(2, ind[2] + 9, 0, 1),
       Token(3, ind[3], 0, 1),
       Token(3, ind[3] + 5, 0, 1),
       Token(3, ind[3] + 6, 0, 1),
       Token(4, ind[4], 0, 1),
       Token(5, ind[5], 0, 1),
       Token(5, ind[5] + 5, 0, 1),
       Token(5, ind[5] + 7, 0, 1),
       Token(6, ind[6], 0, 1),
       Token(7, ind[7], 0, 1),
       Token(8, ind[8], 0, 1),
       Token(8, ind[8] + 1, 0, EOF) >>

(* Import:
      1  import {
      2      a
      3  } from "x";
      4  contract A {
      5      uint b;
      6  }
*)
ImportLevels == << 0, 1, 0, 0, 1, 0 >>

ImportTree(ind) ==
    << Rule("SourceUnitContext", 0, << 2, 11, 22 >>, 1, ind[1], 6),
       Rule("ImportDirectiveContext", 1, << 3, 4, 5, 7, 8, 9, 10 >>, 1, ind[1], 3),
       Term("import", 2, 1, ind[1]),
       Term("{", 2, 1, ind[1] + 7),
       Rule("ImportDeclarationContext", 2, << 6 >>, 2, ind[2], 2),
       Term("a", 5, 2, ind[2]),
       Term("}", 2, 3, ind[3]),
       Term("from", 2, 3, ind[3] + 2),
       Term("\"x\"", 2, 3, ind[3] + 7),
       Term(";", 2, 3, ind[3] + 10),
       Rule("ContractDefinitionContext", 1, << 12, 13, 14, 15, 21 >>, 4, ind[4], 6),
       Term("contract", 11, 4, ind[4]),
       Term("A", 11, 4, ind[4] + 9),
       Term("{", 11, 4, ind[4] + 11),
       Rule("ContractPartContext", 11, << 16 >>, 5, ind[5], 5),
       Rule("StateVariableDeclarationContext", 15, << 17, 19, 20 >>, 5, ind[5], 5),
       Rule("TypeNameContext", 16, << 18 >>, 5, ind[5], 5),
       Term("uint", 17, 5, ind[5]),
       Term("b", 16, 5, ind[5] + 5),
       Term(";", 16, 5, ind[5] + 6),
       Term("}", 11, 6, ind[6]),
       Term("<EOF>", 1, 6, ind[6] + 1) >>

ImportTokens(ind) ==
    << Token(1, ind[1], 0, 1),
       Token(1, ind[1] + 7, 0, 1),
       Token(2, ind[2], 0, 1),
       Token(3, ind[3], 0, 1),
       Token(3, ind[3] + 2, 0, 1),
       Token(3, ind[3] + 7, 0, 1),
       Token(3, ind[3] + 10, 0, 1),
       Token(4, ind[4], 0, 1),
       Token(4, ind[4] + 9, 0, 1),
       Token(4, ind[4] + 11, 0, 1),
       Token(5, ind[5], 0, 1),
       Token(5, ind[5] + 5, 0, 1),
       Token(5, ind[5] + 6, 0, 1),
       Token(6, ind[6], 0, 1),
       Token(6, ind[6] + 1, 0, EOF) >>

(* CallArgs:
      1  contract A {
      2      function f() {
      3          g({
      4              k: 1
      5          });
      6      }
      7  }
*)
CallArgsLevels == << 0, 1, 2, 3, 2, 1, 0 >>

CallArgsTree(ind) ==
    << Rule("SourceUnitContext", 0, << 2, 34 >>, 1, ind[1], 7),
       Rule("ContractDefinitionContext", 1, << 3, 4, 5, 6, 33 >>, 1, ind[1], 7),
       Term("contract", 2, 1, ind[1]),
       Term("A", 2, 1, ind[1] + 9),
       Term("{", 2, 1, ind[1] + 11),
       Rule("ContractPartContext", 2, << 7 >>, 2, ind[2], 6),
       Rule("FunctionDefinitionContext", 6, << 8, 9, 10, 13 >>, 2, ind[2], 6),
       Term("function", 7, 2, ind[2]),
       Term("f", 7, 2, ind[2] + 9),
       Rule("ParameterListContext", 7, << 11, 12 >>, 2, ind[2] + 10, 2),
       Term("(", 10, 2, ind[2] + 10),
       Term(")", 10, 2, ind[2] + 11),
       Rule("BlockContext", 7, << 14, 15, 32 >>, 2, ind[2] + 13, 6),
       Term("{", 13, 2, ind[2] + 13),
       Rule("StatementContext", 13, << 16 >>, 3, ind[3], 5),
       Rule("ExpressionStatementContext", 15, << 17, 31 >>, 3, ind[3], 5),
       Rule("ExpressionContext", 16, << 18, 20, 21, 30 >>, 3, ind[3], 5),
       Rule("ExpressionContext", 17, << 19 >>, 3, ind[3], 3),
       Term("g", 18, 3, ind[3]),
       Term("(", 17, 3, ind[3] + 1),
       Rule("FunctionCallArgumentsContext", 17, << 22, 23, 29 >>, 3, ind[3] + 2, 5),
       Term("{", 21, 3, ind[3] + 2),
       Rule("NameValueListContext", 21, << 24 >>, 4, ind[4], 4),
       Rule("NameValueContext", 23, << 25, 26, 27 >>, 4, ind[4], 4),
       Term("k", 24, 4, ind[4]),
       Term(":", 24, 4, ind[4] + 1),
       Rule("ExpressionContext", 24, << 28 >>, 4, ind[4] + 3, 4),
       Term("1", 27, 4, ind[4] + 3),
       Term("}", 21, 5, ind[5]),
       Term(")", 17, 5, ind[5] + 1),
       Term(";", 16, 5, ind[5] + 2),
       Term("}", 13, 6, ind[6]),
       Term("}", 2, 7, ind[7]),
       Term("<EOF>", 1, 7, ind[7] + 1) >>

CallArgsTokens(ind) ==
    << Token(1, ind[1], 0, 1),
       Token(1, ind[1] + 9, 0, 1),
       Token(1, ind[1] + 11, 0, 1),
       Token(2, ind[2], 0, 1),
       Token(2, ind[2] + 9, 0, 1),
       Token(2, ind[2] + 10, 0, 1),
       Token(2, ind[2] + 11, 0, 1),
       Token(2, ind[2] + 13, 0, 1),
       Token(3, ind[3], 0, 1),
       Token(3, ind[3] + 1, 0, 1),
       Token(3, ind[3] + 2, 0, 1),
       Token(4, ind[4], 0, 1),
       Token(4, ind[4] + 1, 0, 1),
       Token(4, ind[4] + 3, 0, 1),
       Token(5, ind[5], 0, 1),
       Token(5, ind[5] + 1, 0, 1),
       Token(5, ind[5] + 2, 0, 1),
       Token(6, ind[6], 0, 1),
       Token(7, ind[7], 0, 1),
       Token(7, ind[7] + 1, 0, EOF) >>

(* Wrapped:
      1  contract A {
      2      function f() { b; }
      3      uint x =
      4          1;
      5      // note
      6  }
      7  
*)
WrappedLevels == << 0, 1, 1, 2, 1, 0, 0 >>

WrappedTree(ind) ==
    << Rule("SourceUnitContext", 0, << 2, 31 >>, 1, ind[1], 7),
       Rule("ContractDefinitionContext", 1, << 3, 4, 5, 6, 21, 30 >>, 1, ind[1], 6),
       Term("contract", 2, 1, ind[1]),
       Term("A", 2, 1, ind[1] + 9),
       Term("{", 2, 1, ind[1] + 11),
       Rule("ContractPartContext", 2, << 7 >>, 2, ind[2], 2),
       Rule("FunctionDefinitionContext", 6, << 8, 9, 10, 13 >>, 2, ind[2], 2),
       Term("function", 7, 2, ind[2]),
       Term("f", 7, 2, ind[2] + 9),
       Rule("ParameterListContext", 7, << 11, 12 >>, 2, ind[2] + 10, 2),
       Term("(", 10, 2, ind[2] + 10),
       Term(")", 10, 2, ind[2] + 11),
       Rule("BlockContext", 7, << 14, 15, 20 >>, 2, ind[2] + 13, 2),
       Term("{", 13, 2, ind[2] + 13),
       Rule("StatementContext", 13, << 16 >>, 2, ind[2] + 15, 2),
       Rule("ExpressionStatementContext", 15, << 17, 19 >>, 2, ind[2] + 15, 2),
       Rule("ExpressionContext", 16, << 18 >>, 2, ind[2] + 15, 2),
       Term("b", 17, 2, ind[2] + 15),
       Term(";", 16, 2, ind[2] + 16),
       Term("}", 13, 2, ind[2] + 18),
       Rule("ContractPartContext", 2, << 22 >>, 3, ind[3], 4),
       Rule("StateVariableDeclarationContext", 21, << 23, 25, 26, 27, 29 >>, 3, ind[3], 4),
       Rule("TypeNameContext", 22, << 24 >>, 3, ind[3], 3),
       Term("uint", 23, 3, ind[3]),
       Term("x", 22, 3, ind[3] + 5),
       Term("=", 22, 3, ind[3] + 7),
       Rule("ExpressionContext", 22, << 28 >>, 4, ind[4], 4),
       Term("1", 27, 4, ind[4]),
       Term(";", 22, 4, ind[4] + 1),
       Term("}", 2, 6, ind[6]),
       Term("<EOF>", 1, 7, ind[7]) >>

WrappedTokens(ind) ==
    << Token(1, ind[1], 0, 1),
       Token(1, ind[1] + 9, 0, 1),
       Token(1, ind[1] + 11, 0, 1),
       Token(2, ind[2], 0, 1),
       Token(2, ind[2] + 9, 0, 1),
       Token(2, ind[2] + 10, 0, 1),
       Token(2, ind[2] + 11, 0, 1),
       Token(2, ind[2] + 13, 0, 1),
       Token(2, ind[2] + 15, 0, 1),
       Token(2, ind[2] + 16, 0, 1),
       Token(2, ind[2] + 18, 0, 1),
       Token(3, ind[3], 0, 1),
       Token(3, ind[3] + 5, 0, 1),
       Token(3, ind[3] + 7, 0, 1),
       Token(4, ind[4], 0, 1),
       Token(4, ind[4] + 1, 0, 1),
       Token(5, ind[5], 1, 1),
       Token(6, ind[6], 0, 1),
       Token(7, ind[7], 0, EOF) >>

(* StrayToken:
      1  contract A {
      2      function f() {
      3          while (a b)
      4              c;
      5      }
      6  }
*)
StrayTokenLevels == << 0, 1, 2, 3, 1, 0 >>

StrayTokenTree(ind) ==
    << Rule("SourceUnitContext", 0, << 2, 30 >>, 1, ind[1], 6),
       Rule("ContractDefinitionContext", 1, << 3, 4, 5, 6, 29 >>, 1, ind[1], 6),
       Term("contract", 2, 1, ind[1]),
       Term("A", 2, 1, ind[1] + 9),
       Term("{", 2, 1, ind[1] + 11),
       Rule("ContractPartContext", 2, << 7 >>, 2, ind[2], 5),
       Rule("FunctionDefinitionContext", 6, << 8, 9, 10, 13 >>, 2, ind[2], 5),
       Term("function", 7, 2, ind[2]),
       Term("f", 7, 2, ind[2] + 9),
       Rule("ParameterListContext", 7, << 11, 12 >>, 2, ind[2] + 10, 2),
       Term("(", 10, 2, ind[2] + 10),
       Term(")", 10, 2, ind[2] + 11),
       Rule("BlockContext", 7, << 14, 15, 28 >>, 2, ind[2] + 13, 5),
       Term("{", 13, 2, ind[2] + 13),
       Rule("StatementContext", 13, << 16 >>, 3, ind[3], 4),
       Rule("WhileStatementContext", 15, << 17, 18, 19, 21, 22, 23 >>, 3, ind[3], 4),
       Term("while", 16, 3, ind[3]),
       Term("(", 16, 3, ind[3] + 6),
       Rule("ExpressionContext", 16, << 20 >>, 3, ind[3] + 7, 3),
       Term("a", 19, 3, ind[3] + 7),
       Term("b", 16, 3, ind[3] + 9),
       Term(")", 16, 3, ind[3] + 10),
       Rule("StatementContext", 16, << 24 >>, 4, ind[4], 4),
       Rule("ExpressionStatementContext", 23, << 25, 27 >>, 4, ind[4], 4),
       Rule("ExpressionContext", 24, << 26 >>, 4, ind[4], 4),
       Term("c", 25, 4, ind[4]),
       Term(";", 24, 4, ind[4] + 1),
       Term("}", 13, 5, ind[5]),
       Term("}", 2, 6, ind[6]),
       Term("<EOF>", 1, 6, ind[6] + 1) >>

StrayTokenTokens(ind) ==
    << Token(1, ind[1], 0, 1),
       Token(1, ind[1] + 9, 0, 1),
       Token(1, ind[1] + 11, 0, 1),
       Token(2, ind[2], 0, 1),
       Token(2, ind[2] + 9, 0, 1),
       Token(2, ind[2] + 10, 0, 1),
       Token(2, ind[2] + 11, 0, 1),
       Token(2, ind[2] + 13, 0, 1),
       Token(3, ind[3], 0, 1),
       Token(3, ind[3] + 6, 0, 1),
       Token(3, ind[3] + 7, 0, 1),
       Token(3, ind[3] + 9, 0, 1),
       Token(3, ind[3] + 10, 0, 1),
       Token(4, ind[4], 0, 1),
       Token(4, ind[4] + 1, 0, 1),
       Token(5, ind[5], 0, 1),
       Token(6, ind[6], 0, 1),
       Token(6, ind[6] + 1, 0, EOF) >>

(* Unclosed:
      1  contract A {
      2      function f() {
      3          b;
      4  }
*)
UnclosedLevels == << 0, 1, 2, 0 >>

UnclosedTree(ind) ==
    << Rule("SourceUnitContext", 0, << 2, 21 >>, 1, ind[1], 4),
       Rule("ContractDefinitionContext", 1, << 3, 4, 5, 6, 20 >>, 1, ind[1], 4),
       Term("contract", 2, 1, ind[1]),
       Term("A", 2, 1, ind[1] + 9),
       Term("{", 2, 1, ind[1] + 11),
       Rule("ContractPartContext", 2, << 7 >>, 2, ind[2], 3),
       Rule("FunctionDefinitionContext", 6, << 8, 9, 10, 13 >>, 2, ind[2], 3),
       Term("function", 7, 2, ind[2]),
       Term("f", 7, 2, ind[2] + 9),
       Rule("ParameterListContext", 7, << 11, 12 >>, 2, ind[2] + 10, 2),
       Term("(", 10, 2, ind[2] + 10),
       Term(")", 10, 2, ind[2] + 11),
       Rule("BlockContext", 7, << 14, 15 >>, 2, ind[2] + 13, 3),
       Term("{", 13, 2, ind[2] + 13),
       Rule("StatementContext", 13, << 16 >>, 3, ind[3], 3),
       Rule("ExpressionStatementContext", 15, << 17, 19 >>, 3, ind[3], 3),
       Rule("ExpressionContext", 16, << 18 >>, 3, ind[3], 3),
       Term("b", 17, 3, ind[3]),
       Term(";", 16, 3, ind[3] + 1),
       Term("}", 2, 4, ind[4]),
       Term("<EOF>", 1, 4, ind[4] + 1) >>

UnclosedTokens(ind) ==
    << Token(1, ind[1], 0, 1),
       Token(1, ind[1] + 9, 0, 1),
       Token(1, ind[1] + 11, 0, 1),
       Token(2, ind[2], 0, 1),
       Token(2, ind[2] + 9, 0, 1),
       Token(2, ind[2] + 10, 0, 1),
       Token(2, ind[2] + 11, 0, 1),
       Token(2, ind[2] + 13, 0, 1),
       Token(3, ind[3], 0, 1),
       Token(3, ind[3] + 1, 0, 1),
       Token(4, ind[4], 0, 1),
       Token(4, ind[4] + 1, 0, EOF) >>

(* NoBody:
      1  contract A {
      2      function f() {
      3          if (a)
      4      }
      5  }
*)
NoBodyLevels == << 0, 1, 2, 1, 0 >>

NoBodyTree(ind) ==
    << Rule("SourceUnitContext", 0, << 2, 25 >>, 1, ind[1], 5),
       Rule("ContractDefinitionContext", 1, << 3, 4, 5, 6, 24 >>, 1, ind[1], 5),
       Term("contract", 2, 1, ind[1]),
       Term("A", 2, 1, ind[1] + 9),
       Term("{", 2, 1, ind[1] + 11),
       Rule("ContractPartContext", 2, << 7 >>, 2, ind[2], 4),
       Rule("FunctionDefinitionContext", 6, << 8, 9, 10, 13 >>, 2, ind[2], 4),
       Term("function", 7, 2, ind[2]),
       Term("f", 7, 2, ind[2] + 9),
       Rule("ParameterListContext", 7, << 11, 12 >>, 2, ind[2] + 10, 2),
       Term("(", 10, 2, ind[2] + 10),
       Term(")", 10, 2, ind[2] + 11),
       Rule("BlockContext", 7, << 14, 15, 23 >>, 2, ind[2] + 13, 4),
       Term("{", 13, 2, ind[2] + 13),
       Rule("StatementContext", 13, << 16 >>, 3, ind[3], 3),
       Rule("IfStatementContext", 15, << 17, 18, 19, 21, 22 >>, 3, ind[3], 3),
       Term("if", 16, 3, ind[3]),
       Term("(", 16, 3, ind[3] + 3),
       Rule("ExpressionContext", 16, << 20 >>, 3, ind[3] + 4, 3),
       Term("a", 19, 3, ind[3] + 4),
       Term(")", 16, 3, ind[3] + 5),
       Rule("StatementContext", 16, << >>, 4, ind[4], 3),
       Term("}", 13, 4, ind[4]),
       Term("}", 2, 5, ind[5]),
       Term("<EOF>", 1, 5, ind[5] + 1) >>

NoBodyTokens(ind) ==
    << Token(1, ind[1], 0, 1),
       Token(1, ind[1] + 9, 0, 1),
       Token(1, ind[1] + 11, 0, 1),
       Token(2, ind[2], 0, 1),
       Token(2, ind[2] + 9, 0, 1),
       Token(2, ind[2] + 10, 0, 1),
       Token(2, ind[2] + 11, 0, 1),
       Token(2, ind[2] + 13, 0, 1),
       Token(3, ind[3], 0, 1),
       Token(3, ind[3] + 3, 0, 1),
       Token(3, ind[3] + 4, 0, 1),
       Token(3, ind[3] + 5, 0, 1),
       Token(4, ind[4], 0, 1),
       Token(5, ind[5], 0, 1),
       Token(5, ind[5] + 1, 0, EOF) >>

----------------------------------------------------------------------------
(* The family of source units: every source above, laid out at `step`      *)
(* columns per nesting level, with some of its lines shifted.              *)

Sources ==
    { "Braces", "IfElse", "Loops", "ForOneLine", "ElseIf", "StructEnum",
      "Import", "CallArgs", "Wrapped", "StrayToken", "Unclosed", "NoBody" }

LevelsOf(s) ==
    CASE s = "Braces"     -> BracesLevels
      [] s = "IfElse"     -> IfElseLevels
      [] s = "Loops"      -> LoopsLevels
      [] s = "ForOneLine" -> ForOneLineLevels
      [] s = "ElseIf"     -> ElseIfLevels
      [] s = "StructEnum" -> StructEnumLevels
      [] s = "Import"     -> ImportLevels
      [] s = "CallArgs"   -> CallArgsLevels
      [] s = "Wrapped"    -> WrappedLevels
      [] s = "StrayToken" -> StrayTokenLevels
      [] s = "Unclosed"   -> UnclosedLevels
      [] s = "NoBody"     -> NoBodyLevels

TreeOf(s, ind) ==
    CASE s = "Braces"     -> BracesTree(ind)
      [] s = "IfElse"     -> IfElseTree(ind)
      [] s = "Loops"      -> LoopsTree(ind)
      [] s = "ForOneLine" -> ForOneLineTree(ind)
      [] s = "ElseIf"     -> ElseIfTree(ind)
      [] s = "StructEnum" -> StructEnumTree(ind)
      [] s = "Import"     -> ImportTree(ind)
      [] s = "CallArgs"   -> CallArgsTree(ind)
      [] s = "Wrapped"    -> WrappedTree(ind)
      [] s = "StrayToken" -> StrayTokenTree(ind)
      [] s = "Unclosed"   -> UnclosedTree(ind)
      [] s = "NoBody"     -> NoBodyTree(ind)

TokensOf(s, ind) ==
    CASE s = "Braces"     -> BracesTokens(ind)
      [] s = "IfElse"     -> IfElseTokens(ind)
      [] s = "Loops"      -> LoopsTokens(ind)
      [] s = "ForOneLine" -> ForOneLineTokens(ind)
      [] s = "ElseIf"     -> ElseIfTokens(ind)
      [] s = "StructEnum" -> StructEnumTokens(ind)
      [] s = "Import"     -> ImportTokens(ind)
      [] s = "CallArgs"   -> CallArgsTokens(ind)
      [] s = "Wrapped"    -> WrappedTokens(ind)
      [] s = "StrayToken" -> StrayTokenTokens(ind)
      [] s = "Unclosed"   -> UnclosedTokens(ind)
      [] s = "NoBody"     -> NoBodyTokens(ind)

Deltas == { d \in (0 - MaxDelta)..MaxDelta : d # 0 }

\* the sets of at most k lines among n
FaultSets(n, k) == { F \in SUBSET (1..n) : Cardinality(F) <= k }

\* the line indents of a source at `step` columns per level, the lines of
\* DOMAIN d shifted by d
Shifted(levels, step, d) ==
    [l \in 1..Len(levels) |->
        levels[l] * step + (IF l \in DOMAIN d THEN d[l] ELSE 0)]

Indents(levels, step, k) ==
    { ind \in { Shifted(levels, step, d) :
                  d \in UNION { [F -> Deltas] : F \in FaultSets(Len(levels), k) } } :
        \A l \in 1..Len(levels) : ind[l] >= 0 }

SourceUnit(s, ind) == [tree |-> TreeOf(s, ind), tokens |-> TokensOf(s, ind)]

\* the layouts of source s handed to a checker that checks one source unit
Layouts(s, step) == Indents(LevelsOf(s), step, MaxFaults)

\* the layouts handed to a checker that is used for several source units
ShortLayouts(s, step) ==
    IF s = "Wrapped"
      THEN Indents(LevelsOf(s), step, 1)
      ELSE { Shifted(LevelsOf(s), step, << >>) }

----------------------------------------------------------------------------
(* lib/common/tokens: positions of a node. *)

lineOf(t, n) == t[n].line

columnOf(t, n) == t[n].column

stopLine(t, n) == t[n].stopLine

----------------------------------------------------------------------------
(* Tree access. *)

Min(S) == CHOOSE x \in S : \A y \in S : x <= y

\* ctx.children[i]
Child(t, ctx, i) == t[ctx].children[i + 1]

\* ctx.children is an array (a terminal node has none, an empty rule has null)
hasChildren(t, n) == t[n].children # << >>

\* curItem.symbol is defined
isTerm(t, n) == t[n].kind = "TerminalNodeImpl"

getText(t, n) == t[n].text

\* children.map(i => i.getText()).indexOf(s)
IndexOfText(t, ctx, s) ==
    LET hits == { i \in 1..Len(t[ctx].children) : getText(t, t[ctx].children[i]) = s }
    IN  IF hits = {} THEN -1 ELSE Min(hits) - 1

\* curParent.children.indexOf(rootCtx)
IndexOfChild(t, p, c) ==
    Min({ i \in 1..Len(t[p].children) : t[p].children[i] = c }) - 1

----------------------------------------------------------------------------
(* The indentError annotation and the helpers that read it. *)

NoError == [set |-> FALSE, indent |-> 0, correctIndent |-> 0]

IndentErrorOf(col, correct) == [set |-> TRUE, indent |-> col, correctIndent |-> correct]

\* correctIndent without the recorded correction applied
correctIndentUncorrected(curIndent, err) == curIndent

correctIndent(curIndent, err) == curIndent - err.indent + err.correctIndent

RECURSIVE correctIndentFrom(_, _, _, _)
\* the do-while loop of correctIndentOf, at curCtx
correctIndentFrom(t, errs, ctx, curCtx) ==
    IF errs[curCtx].set
      THEN correctIndent(columnOf(t, ctx), errs[curCtx])
      ELSE LET p == t[curCtx].parent
           IN  IF p # 0 /\ lineOf(t, ctx) = lineOf(t, p)
                 THEN correctIndentFrom(t, errs, ctx, p)
                 ELSE columnOf(t, ctx)

correctIndentOf(t, errs, ctx) == correctIndentFrom(t, errs, ctx, ctx)

RECURSIVE rootOfLine(_, _)
\* the while loop of firstNodeOfLine
rootOfLine(t, rootCtx) ==
    LET p == t[rootCtx].parent
    IN  IF p # 0 /\ lineOf(t, rootCtx) = lineOf(t, p) /\ t[p].kind # "SourceUnitContext"
          THEN rootOfLine(t, p)
          ELSE rootCtx

RECURSIVE firstNodeOfLine(_, _)
firstNodeOfLine(t, ctx) ==
    LET rootCtx == rootOfLine(t, ctx)
        curParent == t[rootCtx].parent
        earlier == IF curParent = 0 THEN {}
                   ELSE { i \in 0..(IndexOfChild(t, curParent, rootCtx) - 1) :
                            stopLine(t, Child(t, curParent, i)) = lineOf(t, rootCtx) }
        resultNode == IF earlier = {} THEN rootCtx ELSE Child(t, curParent, Min(earlier))
    IN  IF lineOf(t, ctx) # lineOf(t, resultNode)
          THEN firstNodeOfLine(t, resultNode)
          ELSE resultNode

----------------------------------------------------------------------------
(* class Block *)

startBracketIndex(t, ctx) == IndexOfText(t, ctx, "{")

hasStartBracket(t, ctx) == startBracketIndex(t, ctx) >= 0

startBracket(t, ctx) == Child(t, ctx, startBracketIndex(t, ctx))

startBracketLine(t, ctx) == lineOf(t, startBracket(t, ctx))

endBracketIndex(t, ctx) == IndexOfText(t, ctx, "}")

endBracket(t, ctx) == Child(t, ctx, Len(t[ctx].children) - 1)

endBracketLine(t, ctx) == lineOf(t, endBracket(t, ctx))

endBracketColumn(t, ctx) == columnOf(t, endBracket(t, ctx))

isBracketsOnSameLine(t, ctx) == startBracketLine(t, ctx) = endBracketLine(t, ctx)

----------------------------------------------------------------------------
(* The state the validators of one checker work on, threaded through the   *)
(* statements of a handler.                                                *)

Current ==
    [reporter |-> reporter, blockLines |-> blockLines, nestedLines |-> nestedLines,
     indentError |-> indentError, firstIndent |-> firstIndent,
     writes |-> writes, checks |-> checks, thrown |-> FALSE]

\* a TypeError leaves the handler
Throw(S) == [S EXCEPT !.thrown = TRUE]

ExpectedMessage == "Expected indentation of"

IncorrectMessage == "Indentation is incorrect"

\* reporter.errorAt(line, col, 'indent', message)
errorAt(S, line, col, message, correct, found) ==
    [S EXCEPT !.reporter = Append(@,
        [line |-> line, column |-> col, ruleId |-> "indent", message |-> message,
         expected |-> correct, unit |-> IF message = ExpectedMessage THEN indentUnit ELSE "",
         found |-> found])]

\* KnowLineValidator.makeReportCorrectLine of the validator whose list is `who`
makeReportCorrectLine(S, who, line, col, correct) ==
    errorAt([S EXCEPT ![who] = Append(@, line)], line, col, ExpectedMessage, correct, col)

\* curItem.indentError = {indent, correctIndent}
SetIndentError(S, item, col, correct) ==
    [S EXCEPT !.indentError[item] = IndentErrorOf(col, correct),
              !.writes[item] = @ + 1]

Checked(S, item) == [S EXCEPT !.checks[item] = @ + 1]

----------------------------------------------------------------------------
(* class BlockValidator *)

validateNode(S, requiredIndent, curItem, curLine, curColumn) ==
    IF curColumn # requiredIndent
      THEN SetIndentError(
               makeReportCorrectLine(Checked(S, curItem), "blockLines",
                                     curLine, curColumn, requiredIndent),
               curItem, curColumn, requiredIndent)
      ELSE Checked(S, curItem)

RECURSIVE forEachNestedNode(_, _, _, _, _)
\* Block.forEachNestedNode from child i on, with validateNode(requiredIndent)
\* as the callback
forEachNestedNode(S, t, ctx, i, requiredIndent) ==
    IF i >= endBracketIndex(t, ctx)
      THEN S
      ELSE LET curItem == Child(t, ctx, i)
           IN  forEachNestedNode(
                   IF isTerm(t, curItem)
                     THEN S
                     ELSE validateNode(S, requiredIndent, curItem,
                                       lineOf(t, curItem), columnOf(t, curItem)),
                   t, ctx, i + 1, requiredIndent)

validateIndentOfNestedElements(S, t, ctx) ==
    LET requiredIndent ==
            correctIndentOf(t, S.indentError, firstNodeOfLine(t, ctx)) + indent
    IN  forEachNestedNode(S, t, ctx, startBracketIndex(t, ctx) + 1, requiredIndent)

validateEndBracketIndent(S, t, ctx) ==
    LET endBracketCorrectIndent ==
            correctIndentOf(t, S.indentError, firstNodeOfLine(t, ctx))
    IN  IF endBracketCorrectIndent # endBracketColumn(t, ctx)
          THEN makeReportCorrectLine(S, "blockLines", endBracketLine(t, ctx),
                                     endBracketColumn(t, ctx), endBracketCorrectIndent)
          ELSE S

validateBlock(S, t, ctx) ==
    IF ~hasStartBracket(t, ctx)
      THEN S
      ELSE IF ~isTerm(t, endBracket(t, ctx))
        THEN Throw(S)     \* endBracket().symbol is undefined
        ELSE IF isBracketsOnSameLine(t, ctx)
          THEN S
          ELSE validateEndBracketIndent(validateIndentOfNestedElements(S, t, ctx), t, ctx)

----------------------------------------------------------------------------
(* class NestedSingleLineValidator *)

\* the exemption list without the if-chain
ExemptBlocksOnly == { "BlockContext" }

ExemptStatements == { "BlockContext", "IfStatementContext" }

validate(S, t, ctx, index) ==
    IF ~hasChildren(t, ctx)
      THEN Throw(S)       \* ctx.children.length of null
      ELSE IF Len(t[ctx].children) <= index
        THEN S
        ELSE LET statement == Child(t, ctx, index)
                 statementColumn == columnOf(t, statement)
                 statementLine == lineOf(t, statement)
                 requiredIndent ==
                     correctIndentOf(t, S.indentError, t[ctx].parent) + indent
             IN  IF ~hasChildren(t, statement)
                   THEN Throw(S)      \* statement.children[0] of undefined or null
                   ELSE IF /\ t[Child(t, statement, 0)].kind \notin ExemptStatements
                           /\ statementColumn # requiredIndent
                           /\ statementLine # lineOf(t, ctx)
                     THEN SetIndentError(
                              makeReportCorrectLine(Checked(S, statement), "nestedLines",
                                  statementLine, statementColumn, requiredIndent),
                              statement, statementColumn,
                              correctIndentOf(t, S.indentError, t[ctx].parent) + indent)
                     ELSE Checked(S, statement)

RECURSIVE validateMultiple(_, _, _, _)
validateMultiple(S, t, ctx, indexes) ==
    IF indexes = << >> \/ S.thrown
      THEN S
      ELSE validateMultiple(validate(S, t, ctx, Head(indexes)), t, ctx, Tail(indexes))

----------------------------------------------------------------------------
(* class BaseIndentMultiplicityValidator *)

\* a % b of JavaScript, for a >= 0 and b # 0
Remainder(a, b) == a % (IF b < 0 THEN 0 - b ELSE b)

isNotValidForBaseIndent(col) == Remainder(col, indent) # 0

applyTokenIndent(fi, token) ==
    IF token.line \notin DOMAIN fi
      THEN [l \in DOMAIN fi \cup {token.line} |->
               IF l = token.line THEN token.column ELSE fi[l]]
      ELSE IF fi[token.line] > token.column
        THEN [fi EXCEPT ![token.line] = token.column]
        ELSE fi

\* tokens.filter(i => i.channel === 0 && i.type >= 0)
Counted(token) == token.channel = CodeChannel /\ token.type >= MinTokenType

RECURSIVE applyTokens(_, _, _)
\* tokens.forEach(applyTokenIndent) over the counted tokens from the i-th on
applyTokens(fi, toks, i) ==
    IF i > Len(toks)
      THEN fi
      ELSE applyTokens(IF Counted(toks[i]) THEN applyTokenIndent(fi, toks[i]) ELSE fi,
                       toks, i + 1)

RECURSIVE reportLines(_, _, _)
\* the for-in loop of validate over the lines of firstIndent (ascending)
reportLines(S, lines, linesWithError) ==
    IF lines = {}
      THEN S
      ELSE LET curLine == Min(lines)
               curIndent == S.firstIndent[curLine]
               n == Len(linesWithError)
           IN  reportLines(
                   IF /\ \A k \in 1..n : linesWithError[k] # curLine
                      /\ isNotValidForBaseIndent(curIndent)
                     THEN errorAt(S, curLine, curIndent, IncorrectMessage, 0, 0)
                     ELSE S,
                   lines \ {curLine}, linesWithError)

\* BaseIndentMultiplicityValidator.validate(linesWithError, ctx)
validateBase(S, linesWithError, toks) ==
    LET filled == [S EXCEPT !.firstIndent = applyTokens(@, toks, 1)]
    IN  reportLines(filled, DOMAIN filled.firstIndent, linesWithError)

----------------------------------------------------------------------------
(* class IndentChecker: configuration *)

Str(s) == [t |-> "string", s |-> s, n |-> 0]

Num(n) == [t |-> "number", s |-> "", n |-> n]

OptionValues ==
    { Str("error"), Str("tabs"), Str("x") } \cup { Num(n) : n \in (0 - MaxOption)..MaxOption }

\* config.rules.indent: absent, a scalar, or an array of values
IndentRules ==
    { [is |-> "undefined", elems |-> << >>], [is |-> "scalar", elems |-> << >>] }
    \cup { [is |-> "array", elems |-> e] :
             e \in UNION { [1..k -> OptionValues] : k \in 0..3 } }

\* the values `config` can take: undefined, an object without rules, an
\* object with rules
Configs ==
    { [is |-> "undefined", rules |-> "undefined", indentRule |-> [is |-> "undefined", elems |-> << >>]],
      [is |-> "object", rules |-> "undefined", indentRule |-> [is |-> "undefined", elems |-> << >>]] }
    \cup { [is |-> "object", rules |-> "object", indentRule |-> r] : r \in IndentRules }

WithOption(v) ==
    [is |-> "object", rules |-> "object",
     indentRule |-> [is |-> "array", elems |-> << Str("error"), v >>]]

\* the configurations of the passes that are explored: the default and tabs
PassConfigs ==
    { [is |-> "object", rules |-> "undefined", indentRule |-> [is |-> "undefined", elems |-> << >>]],
      WithOption(Str("tabs")) }

\* parseConfig(config): {} is [has |-> FALSE]
EmptyConf == [thrown |-> FALSE, has |-> FALSE, indent |-> 0, unit |-> ""]

parseConfig(cfg) ==
    IF cfg.is = "undefined"
      THEN [EmptyConf EXCEPT !.thrown = TRUE]      \* config.rules of undefined
      ELSE IF ~(/\ cfg.rules = "object"
                /\ cfg.indentRule.is = "array"
                /\ Len(cfg.indentRule.elems) = 2)
        THEN EmptyConf
        ELSE LET indentConf == cfg.indentRule.elems[2]
             IN  IF indentConf = Str("tabs")
                   THEN [thrown |-> FALSE, has |-> TRUE, indent |-> 1, unit |-> "tabs"]
                   ELSE IF indentConf.t = "number"
                     THEN [thrown |-> FALSE, has |-> TRUE, indent |-> indentConf.n,
                           unit |-> "spaces"]
                     ELSE EmptyConf

\* parseConfig(config).indent || 4
IndentOfConfig(cfg) ==
    LET c == parseConfig(cfg)
    IN  IF c.has /\ c.indent # 0 THEN c.indent ELSE DefaultIndent

\* parseConfig(config).unit || 'spaces'
UnitOfConfig(cfg) ==
    LET c == parseConfig(cfg)
    IN  IF c.has THEN c.unit ELSE "spaces"

----------------------------------------------------------------------------
(* The initial states and the handlers. *)

NoTree == << >>

Blank ==
    /\ tree = NoTree
    /\ tokens = << >>
    /\ pos = 0
    /\ indentError = << >>
    /\ blockLines = << >>
    /\ nestedLines = << >>
    /\ firstIndent = << >>
    /\ reporter = << >>
    /\ mark = 0
    /\ units = 0
    /\ writes = << >>
    /\ checks = << >>

\* before `new IndentChecker(reporter, config)`
InitNew ==
    /\ pc = "new"
    /\ config \in Configs
    /\ indent = 0
    /\ indentUnit = ""
    /\ Blank

\* constructor(reporter, config)
Construct ==
    /\ pc = "new"
    /\ IF parseConfig(config).thrown
         THEN /\ pc' = "failed"
              /\ UNCHANGED << indent, indentUnit >>
         ELSE /\ pc' = "ready"
              /\ indent' = IndentOfConfig(config)
              /\ indentUnit' = UnitOfConfig(config)
    /\ UNCHANGED << config, tree, tokens, pos, indentError, blockLines, nestedLines,
                    firstIndent, reporter, mark, units, writes, checks >>

\* a checker constructed with one of the explored configurations
Init ==
    /\ pc = "ready"
    /\ config \in PassConfigs
    /\ indent = IndentOfConfig(config)
    /\ indentUnit = UnitOfConfig(config)
    /\ Blank

Hooked ==
    { "BlockContext", "ContractDefinitionContext", "StructDefinitionContext",
      "EnumDefinitionContext", "ImportDirectiveContext", "FunctionCallArgumentsContext",
      "IfStatementContext", "WhileStatementContext", "DoWhileStatementContext",
      "ForStatementContext" }

\* the next node after p, in document order, that has an enter handler, or
\* Len(t) + 1 when the walk has passed the last one
NextHook(t, p) ==
    LET later == { n \in (p + 1)..Len(t) : t[n].kind \in Hooked }
    IN  IF later = {} THEN Len(t) + 1 ELSE Min(later)

\* the state a handler leaves behind; a handler that threw ends the walk
Leave(S) ==
    /\ reporter' = S.reporter
    /\ blockLines' = S.blockLines
    /\ nestedLines' = S.nestedLines
    /\ indentError' = S.indentError
    /\ firstIndent' = S.firstIndent
    /\ writes' = S.writes
    /\ checks' = S.checks
    /\ IF S.thrown
         THEN pc' = "aborted" /\ pos' = pos
         ELSE pc' = "walk" /\ pos' = NextHook(tree, pos)
    /\ UNCHANGED << config, indent, indentUnit, tree, tokens, mark, units >>

At(kind) == pc = "walk" /\ pos <= Len(tree) /\ tree[pos].kind = kind

RECURSIVE validateTopLevel(_, _, _)
\* the forEach of enterSourceUnit over the children of ctx from the i-th on
validateTopLevel(S, t, i) ==
    IF i >= Len(t[1].children)
      THEN S
      ELSE LET curNode == Child(t, 1, i)
           IN  validateTopLevel(
                   IF getText(t, curNode) # "<EOF>"
                     THEN validateNode(S, 0, curNode, lineOf(t, curNode), columnOf(t, curNode))
                     ELSE S,
                   t, i + 1)

\* enterSourceUnit(ctx), ctx the root of the parse tree of u
enterSourceUnit(u) ==
    LET fresh == [n \in 1..Len(u.tree) |-> 0]
        S == validateTopLevel(
                 [Current EXCEPT !.indentError = [n \in 1..Len(u.tree) |-> NoError],
                                 !.writes = fresh, !.checks = fresh],
                 u.tree, 0)
    IN  /\ tree' = u.tree
        /\ tokens' = u.tokens
        /\ mark' = Len(reporter)
        /\ units' = units + 1
        /\ reporter' = S.reporter
        /\ blockLines' = S.blockLines
        /\ nestedLines' = S.nestedLines
        /\ indentError' = S.indentError
        /\ writes' = S.writes
        /\ checks' = S.checks
        /\ pos' = NextHook(u.tree, 1)
        /\ pc' = "walk"
        /\ UNCHANGED << config, indent, indentUnit, firstIndent >>

\* the walker enters the source unit of a freshly constructed checker
EnterSourceUnit ==
    /\ pc = "ready"
    /\ \E s \in Sources : \E ind \in Layouts(s, indent) :
           enterSourceUnit(SourceUnit(s, ind))

\* the walker enters the first or a further source unit with the same checker
EnterShortSourceUnit ==
    /\ pc \in { "ready", "done" }
    /\ units < MaxUnits
    /\ \E s \in Sources : \E ind \in ShortLayouts(s, indent) :
           enterSourceUnit(SourceUnit(s, ind))

EnterBlock == At("BlockContext") /\ Leave(validateBlock(Current, tree, pos))

EnterContractDefinition ==
    At("ContractDefinitionContext") /\ Leave(validateBlock(Current, tree, pos))

EnterStructDefinition ==
    At("StructDefinitionContext") /\ Leave(validateBlock(Current, tree, pos))

EnterEnumDefinition ==
    At("EnumDefinitionContext") /\ Leave(validateBlock(Current, tree, pos))

EnterImportDirective ==
    At("ImportDirectiveContext") /\ Leave(validateBlock(Current, tree, pos))

EnterFunctionCallArguments ==
    At("FunctionCallArgumentsContext") /\ Leave(validateBlock(Current, tree, pos))

\* the position list with the then-position written twice
STATEMENTS_POSITION_REPEATED == << THEN_STATEMENT_POSITION, THEN_STATEMENT_POSITION >>

STATEMENTS_POSITION == << THEN_STATEMENT_POSITION, ELSE_STATEMENT_POSITION >>

EnterIfStatement ==
    At("IfStatementContext")
    /\ Leave(validateMultiple(Current, tree, pos, STATEMENTS_POSITION))

EnterWhileStatement ==
    At("WhileStatementContext") /\ Leave(validate(Current, tree, pos, STATEMENT_POSITION))

EnterDoWhileStatement ==
    At("DoWhileStatementContext")
    /\ Leave(validate(Current, tree, pos, DO_STATEMENT_POSITION))

EnterForStatement ==
    At("ForStatementContext")
    /\ Leave(validate(Current, tree, pos, Len(tree[pos].children) - 1))

\* getLinesWithError without the lines of the single-line validator
getLinesWithErrorOfBlocks(S) == S.blockLines

getLinesWithError(S) == S.nestedLines \o S.blockLines

\* exitSourceUnit(ctx): the walker has left every other node
ExitSourceUnit ==
    /\ pc = "walk"
    /\ pos > Len(tree)
    /\ LET S == validateBase(Current, getLinesWithError(Current), tokens)
       IN  /\ reporter' = S.reporter
           /\ firstIndent' = S.firstIndent
    /\ pc' = "done"
    /\ UNCHANGED << config, indent, indentUnit, tree, tokens, pos, indentError,
                    blockLines, nestedLines, mark, units, writes, checks >>

Hooks ==
    \/ EnterBlock
    \/ EnterContractDefinition
    \/ EnterStructDefinition
    \/ EnterEnumDefinition
    \/ EnterImportDirective
    \/ EnterFunctionCallArguments
    \/ EnterIfStatement
    \/ EnterWhileStatement
    \/ EnterDoWhileStatement
    \/ EnterForStatement

\* one pass of a fresh checker over one source unit
Next == EnterSourceUnit \/ Hooks \/ ExitSourceUnit

Spec == Init /\ [][Next]_vars

\* one checker over several source units, one after the other
NextReuse == EnterShortSourceUnit \/ Hooks \/ ExitSourceUnit

SpecReuse == Init /\ [][NextReuse]_vars

\* the construction of a checker from any configuration
NextNew == Construct

SpecNew == InitNew /\ [][NextNew]_vars

----------------------------------------------------------------------------
(* Vocabulary of the properties below.  These definitions describe the     *)
(* tree, the token stream and the diagnostics; none of them is used by the *)
(* handlers above.                                                         *)

Nodes == 1..Len(tree)

Max(S) == CHOOSE x \in S : \A y \in S : x >= y

\* the handler of node n has run and returned
Visited(n) == pc \in { "walk", "done", "aborted" } /\ n < pos

\* the diagnostics of the current pass, by their position in the reporter
PassIdx == (mark + 1)..Len(reporter)

ExpectedIdx == { i \in PassIdx : reporter[i].message = ExpectedMessage }

BaseIdx == { i \in PassIdx : reporter[i].message = IncorrectMessage }

ExpectedIdxAt(l, c) ==
    { i \in ExpectedIdx : reporter[i].line = l /\ reporter[i].column = c }

ExpectedAtNode(n) == ExpectedIdxAt(tree[n].line, tree[n].column)

RECURSIVE Path(_)
\* node n and its ancestors
Path(n) == IF n = 0 THEN {} ELSE {n} \cup Path(tree[n].parent)

\* the nodes among n and its ancestors that start on n's line and carry a
\* correction
Carriers(n) ==
    { a \in Path(n) : tree[a].line = tree[n].line /\ indentError[a].set }

\* the indent n should have: its column, moved by the correction of the
\* nearest carrier
Resolved(n) ==
    IF Carriers(n) = {}
      THEN tree[n].column
      ELSE LET a == Max(Carriers(n))
           IN  tree[n].column - indentError[a].indent + indentError[a].correctIndent

BlockKinds ==
    { "BlockContext", "ContractDefinitionContext", "StructDefinitionContext",
      "EnumDefinitionContext", "ImportDirectiveContext", "FunctionCallArgumentsContext" }

StatementKinds ==
    { "IfStatementContext", "WhileStatementContext", "DoWhileStatementContext",
      "ForStatementContext" }

ChildrenOf(n) == { tree[n].children[i] : i \in 1..Len(tree[n].children) }

TextChildren(n, s) == { c \in ChildrenOf(n) : tree[c].text = s }

\* the constructs the block validator applies to that have both brace tokens
BracedConstructs ==
    { b \in Nodes : /\ tree[b].kind \in BlockKinds
                    /\ TextChildren(b, "{") # {}
                    /\ TextChildren(b, "}") # {} }

OpeningBrace(b) == Min(TextChildren(b, "{"))

ClosingBrace(b) == Min(TextChildren(b, "}"))

MultiLine(b) == tree[OpeningBrace(b)].line # tree[ClosingBrace(b)].line

\* the nested elements of b: its rule children between the braces
Members(b) ==
    { c \in ChildrenOf(b) : /\ tree[c].kind # "TerminalNodeImpl"
                            /\ OpeningBrace(b) < c
                            /\ c < ClosingBrace(b) }

Anchor(b) == firstNodeOfLine(tree, b)

\* the child slots of the controlled statements of construct x
SlotsOf(x) ==
    CASE tree[x].kind = "IfStatementContext"      -> { 4, 6 }
      [] tree[x].kind = "WhileStatementContext"   -> { 4 }
      [] tree[x].kind = "DoWhileStatementContext" -> { 1 }
      [] tree[x].kind = "ForStatementContext"     -> { Len(tree[x].children) - 1 }

HasSlot(x, k) == Len(tree[x].children) > k

Slot(x, k) == tree[x].children[k + 1]

FirstChildKind(s) == tree[tree[s].children[1]].kind

\* a token on the significant channel
Significant(tok) == tok.channel = 0

\* a token on the significant channel other than the end-of-input marker
SignificantCode(tok) == tok.channel = 0 /\ tok.type # EOF

TokenIdx(P(_), L) == { i \in 1..Len(tokens) : tokens[i].line = L /\ P(tokens[i]) }

TokenLines == { tokens[i].line : i \in 1..Len(tokens) }

\* the minimal column among the tokens of line L that satisfy P
MinColumn(P(_), L) == Min({ tokens[i].column : i \in TokenIdx(P, L) })

\* the indent of line L: the column of its leftmost token of code
LineIndent(L) == MinColumn(SignificantCode, L)

CodeLines == { L \in TokenLines : TokenIdx(SignificantCode, L) # {} }

\* c is a whole multiple of u
Divides(u, c) == \E k \in (0 - c)..c : k * u = c

\* line L was flagged by the block validator or the single-line validator
Flagged(L) == \E i \in ExpectedIdx : reporter[i].line = L

\* line L is due a base-multiplicity diagnostic, counting the tokens that satisfy P
Due(P(_), L) ==
    /\ TokenIdx(P, L) # {}
    /\ ~Divides(indent, MinColumn(P, L))
    /\ ~Flagged(L)

\* the base-multiplicity diagnostics of the pass are one per due line, at the
\* line's minimal column, and no others
BaseReportsMatch(P(_)) ==
    /\ \A i \in BaseIdx :
          /\ Due(P, reporter[i].line)
          /\ reporter[i].column = MinColumn(P, reporter[i].line)
    /\ \A L \in TokenLines :
          Cardinality({ i \in BaseIdx : reporter[i].line = L })
              = IF Due(P, L) THEN 1 ELSE 0

TopLevel == { c \in ChildrenOf(1) : tree[c].text # "<EOF>" }

\* s is an un-braced controlled statement of x that stands on a line of its own
OwnLineBody(x, k) ==
    /\ HasSlot(x, k)
    /\ tree[Slot(x, k)].children # << >>
    /\ FirstChildKind(Slot(x, k)) # "BlockContext"
    /\ tree[Slot(x, k)].line # tree[x].line
    /\ tree[Slot(x, k)].column = LineIndent(tree[Slot(x, k)].line)

\* the source unit is laid out at the indent unit, line by line
WellFormatted ==
    /\ \A c \in TopLevel : tree[c].column = 0
    /\ \A b \in BracedConstructs :
          MultiLine(b) =>
            /\ \A m \in Members(b) : tree[m].column = LineIndent(tree[b].line) + indent
            /\ tree[ClosingBrace(b)].column = LineIndent(tree[b].line)
    /\ \A x \in Nodes :
          tree[x].kind \in StatementKinds =>
            \A k \in SlotsOf(x) :
                OwnLineBody(x, k) =>
                  tree[Slot(x, k)].column = LineIndent(tree[x].line) + indent
    /\ \A L \in CodeLines : Divides(indent, LineIndent(L))

----------------------------------------------------------------------------
(* C1: a pass over a source unit that is laid out at the indent unit (top-  *)
(* level elements at column 0, nested elements of multi-line braced         *)
(* constructs one unit deeper than their anchor line, closing braces at the *)
(* anchor line's indent, un-braced bodies on their own line one unit deeper *)
(* than their construct's line, every line's leftmost token at a multiple   *)
(* of the unit) calls the reporter zero times.                              *)
CE_C1 == (pc = "done" /\ WellFormatted) => Len(reporter) = mark

----------------------------------------------------------------------------
(* C2: when exactly one nested member m of a multi-line braced block b is   *)
(* not at the required indent and everything else conforms, the pass emits  *)
(* exactly one "Expected indentation" diagnostic, at m's line and column,   *)
(* and no base-multiplicity diagnostic for m's line.                        *)

\* everything but m conforms to what its anchor (as corrected) requires
OnlyFault(b, m) ==
    /\ MultiLine(b)
    /\ m \in Members(b)
    /\ tree[m].column # Resolved(Anchor(b)) + indent
    /\ \A c \in TopLevel : tree[c].column = 0
    /\ \A d \in BracedConstructs :
          MultiLine(d) =>
            /\ \A e \in Members(d) \ {m} : tree[e].column = Resolved(Anchor(d)) + indent
            /\ tree[ClosingBrace(d)].column = Resolved(Anchor(d))
    /\ \A x \in Nodes :
          tree[x].kind \in StatementKinds =>
            \A k \in SlotsOf(x) :
                (/\ HasSlot(x, k)
                 /\ FirstChildKind(Slot(x, k)) \notin { "BlockContext", "IfStatementContext" }
                 /\ tree[Slot(x, k)].line # tree[x].line)
                => tree[Slot(x, k)].column = Resolved(tree[x].parent) + indent
    /\ \A L \in CodeLines \ { tree[m].line } : Divides(indent, LineIndent(L))

CE_C2 ==
    pc = "done" =>
        \A b \in BracedConstructs : \A m \in Members(b) :
            OnlyFault(b, m) =>
              /\ Cardinality(ExpectedIdx) = 1
              /\ ExpectedAtNode(m) = ExpectedIdx
              /\ \A i \in BaseIdx : reporter[i].line # tree[m].line

----------------------------------------------------------------------------
(* C3: the required indent used for the nested elements of a validated      *)
(* block is column(anchor) - o + e + unit when the anchor, or its nearest   *)
(* ancestor starting on the same line, carries a correction (o, e), and     *)
(* column(anchor) + unit when none does: a nested element is accepted       *)
(* exactly at that column, and otherwise reported and annotated with it.    *)

\* the block validator has validated the nested elements of b
NestedValidated(b) ==
    /\ tree[b].kind \in BlockKinds
    /\ Visited(b)
    /\ hasStartBracket(tree, b)
    /\ ~isBracketsOnSameLine(tree, b)

RequiredOf(b) == Resolved(Anchor(b)) + indent

Thm_C3 ==
    \A b \in Nodes :
        NestedValidated(b) =>
          \A m \in Members(b) :
              IF tree[m].column = RequiredOf(b)
                THEN ~indentError[m].set /\ ExpectedAtNode(m) = {}
                ELSE /\ indentError[m] = IndentErrorOf(tree[m].column, RequiredOf(b))
                     /\ \E i \in ExpectedAtNode(m) : reporter[i].expected = RequiredOf(b)

\* a finished pass over a block whose anchor carries a correction that
\* moves it, one nested element of which was reported against the corrected
\* indent plus one unit
Wit_C3 ==
    /\ pc = "done"
    /\ \E b \in Nodes :
          /\ NestedValidated(b)
          /\ Carriers(Anchor(b)) # {}
          /\ RequiredOf(b) # tree[Anchor(b)].column + indent
          /\ \E m \in Members(b) :
                /\ indentError[m].set
                /\ indentError[m].correctIndent = RequiredOf(b)

----------------------------------------------------------------------------
(* C4: constructing the checker never fails; a configuration that is        *)
(* absent, has no rules, no indent rule, an indent rule that is not a       *)
(* two-element list, or an option that is neither 'tabs' nor a positive     *)
(* integer gives 4 spaces; 'tabs' gives unit size 1 named 'tabs'; a         *)
(* positive integer N gives N spaces.                                       *)

HasOption(cfg) ==
    /\ cfg.is = "object"
    /\ cfg.rules = "object"
    /\ cfg.indentRule.is = "array"
    /\ Len(cfg.indentRule.elems) = 2

OptionOf(cfg) == cfg.indentRule.elems[2]

CE_C4 ==
    /\ pc # "failed"
    /\ pc = "ready" =>
         IF HasOption(config) /\ OptionOf(config) = Str("tabs")
           THEN indent = 1 /\ indentUnit = "tabs"
           ELSE IF HasOption(config) /\ OptionOf(config).t = "number"
                   /\ OptionOf(config).n > 0
             THEN indent = OptionOf(config).n /\ indentUnit = "spaces"
             ELSE indent = 4 /\ indentUnit = "spaces"

----------------------------------------------------------------------------
(* C5: for every tree, also one with a missing or unexpectedly shaped child *)
(* slot, every enter handler and exitSourceUnit returns normally: no        *)
(* handler ends the pass by throwing.                                       *)
CE_C5 == pc # "aborted"

----------------------------------------------------------------------------
(* C6: during one traversal a node's indentError is assigned at most once   *)
(* and, once set, keeps its value; every node is validated for a correction *)
(* at most once.                                                            *)
Thm_C6 ==
    \A n \in DOMAIN writes :
        /\ writes[n] <= 1
        /\ checks[n] <= 1
        /\ indentError[n].set <=> writes[n] = 1

\* a finished traversal in which one node got its correction and another
\* node was validated and found in place
Wit_C6 ==
    /\ pc = "done"
    /\ \E n \in DOMAIN writes : writes[n] = 1 /\ checks[n] = 1
    /\ \E n \in DOMAIN writes : writes[n] = 0 /\ checks[n] = 1

----------------------------------------------------------------------------
(* C7: exitSourceUnit of a fresh checker reports "Indentation is incorrect" *)
(* at (L, c) exactly once iff line L carries a significant-channel token, c *)
(* is the minimal column among them, c is no multiple of the indent unit    *)
(* and L was not flagged during the traversal; it reports nothing else.     *)

\* the statement with every token of the significant channel counted
CE_C7 == pc = "done" => BaseReportsMatch(Significant)

\* C7 as amended: the end-of-input marker (channel 0, type -1) is not
\* counted among a line's significant tokens
Thm_C7 == pc = "done" => BaseReportsMatch(SignificantCode)

\* a finished pass with a base-multiplicity diagnostic on one line and, on
\* another line, an off-multiple indent that was flagged and so not repeated
Wit_C7 ==
    /\ pc = "done"
    /\ BaseIdx # {}
    /\ \E L \in CodeLines : Flagged(L) /\ ~Divides(indent, LineIndent(L))

----------------------------------------------------------------------------
(* C8: for a construct of the block validator whose '{' and '}' tokens are  *)
(* on different lines, a closing-brace diagnostic is reported, at the '}'   *)
(* token's line and column, iff the column of '}' differs from the resolved *)
(* indent of the anchor; a construct whose '{' and '}' share a line gets no *)
(* nested-element and no closing-brace diagnostic.                          *)
CE_C8 ==
    \A b \in BracedConstructs :
        Visited(b) =>
          IF MultiLine(b)
            THEN ExpectedAtNode(ClosingBrace(b)) # {}
                   <=> tree[ClosingBrace(b)].column # Resolved(Anchor(b))
            ELSE /\ ExpectedAtNode(ClosingBrace(b)) = {}
                 /\ \A m \in Members(b) : ExpectedAtNode(m) = {}

----------------------------------------------------------------------------
(* C9: the single-line validator reports the controlled statement in slot k *)
(* of an if (4, 6), while (4), do-while (1) or for (last) construct,        *)
(* records its line and attaches (observed = column, expected = required)   *)
(* iff the slot exists, the statement's first child is neither a block nor  *)
(* an if statement, the statement starts on another line than the construct *)
(* and its column differs from resolver(construct's parent) + unit;         *)
(* otherwise it reports nothing and attaches nothing.                       *)

RequiredOfBody(x) == Resolved(tree[x].parent) + indent

ShouldReport(x, k) ==
    /\ HasSlot(x, k)
    /\ FirstChildKind(Slot(x, k)) \notin { "BlockContext", "IfStatementContext" }
    /\ tree[Slot(x, k)].line # tree[x].line
    /\ tree[Slot(x, k)].column # RequiredOfBody(x)

Thm_C9 ==
    \A x \in Nodes :
        (tree[x].kind \in StatementKinds /\ Visited(x)) =>
          \A k \in SlotsOf(x) :
              IF ShouldReport(x, k)
                THEN /\ \E i \in ExpectedAtNode(Slot(x, k)) :
                            reporter[i].expected = RequiredOfBody(x)
                     /\ \E j \in 1..Len(nestedLines) :
                            nestedLines[j] = tree[Slot(x, k)].line
                     /\ indentError[Slot(x, k)]
                            = IndentErrorOf(tree[Slot(x, k)].column, RequiredOfBody(x))
                ELSE HasSlot(x, k) =>
                       /\ ExpectedAtNode(Slot(x, k)) = {}
                       /\ ~indentError[Slot(x, k)].set

\* a finished pass over an if statement whose then-statement was reported
\* and whose else-statement, on a line of its own, was accepted
Wit_C9 ==
    /\ pc = "done"
    /\ \E x \in Nodes :
          /\ tree[x].kind = "IfStatementContext"
          /\ ShouldReport(x, 4)
          /\ indentError[Slot(x, 4)].set
          /\ HasSlot(x, 6)
          /\ tree[Slot(x, 6)].line # tree[x].line
          /\ ~ShouldReport(x, 6)
          /\ ~indentError[Slot(x, 6)].set

----------------------------------------------------------------------------
(* C10: when one checker checks several source units one after another, the *)
(* diagnostics of a unit are those a fresh checker emits for it: the        *)
(* base-multiplicity diagnostics of a pass are decided by the unit's own    *)
(* tokens and the lines flagged in this pass, and the line-indent map holds *)
(* the lines of the current unit only.                                      *)
CE_C10 ==
    pc = "done" =>
        /\ BaseReportsMatch(SignificantCode)
        /\ DOMAIN firstIndent = CodeLines

====
